---- MODULE Spec2Model ----
(***************************************************************************)
(* Model of the 500nyang news bot: the sheet reader of common.py           *)
(* (get_latest_news_from_gsheet) and the classifier, category selector and *)
(* request handler of main.py (detect_category, normalize_category,        *)
(* get_news_by_category, handle_news_request).                             *)
(*                                                                         *)
(* A Python string is a sequence of characters, each character a TLA+      *)
(* string.  Hangul syllables are written romanised ("jeong" "chaek" is the *)
(* two-character keyword of line 42 of main.py).  A run of characters that *)
(* no operation of the program looks into (a whole category label, a       *)
(* title, a URL) is kept as one element.  A Python dict is a function      *)
(* whose DOMAIN is the set of keys the dict has.                           *)
(***************************************************************************)
EXTENDS Integers, Sequences, FiniteSets, TLC

VARIABLES
    gsheet_worksheet,  \* the module-level handle of common.py: TRUE when set
    all_records,       \* the rows get_all_records() returns when it succeeds
    fetch_fails,       \* whether the last get_all_records() call raised
    user_message,      \* the utterance of the request, or None
    limit,             \* the limit argument of the last selector call
    target,            \* the category argument of the last selector call
    category,          \* the result of the last detect_category call
    news_items,        \* the list the last selector call returned
    response,          \* the dict the last handle_news_request call returned
    raised,            \* whether the last call let an exception escape
    op                 \* the last operation: "init" before any

vars == <<gsheet_worksheet, all_records, fetch_fails, user_message, limit,
          target, category, news_items, response, raised, op>>

(***************************************************************************)
(* Bounds of the model.                                                    *)
(***************************************************************************)
MaxRows == 2       \* rows of the sheet in the selector specification
MaxLimit == 3      \* largest limit a selector is called with
MaxMsgLen == 4     \* characters of a message in the classifier specification
MaxReqRows == 2    \* rows of the sheet in the request specification

(***************************************************************************)
(* Python values.                                                          *)
(***************************************************************************)
\* None: a value different from every string of the model.
None == <<"None">>

\* dict.get(key, default)
Get(d, key, default) == IF key \in DOMAIN d THEN d[key] ELSE default

\* Python truthiness of a string-or-None value
Truthy(s) == s # None /\ s # <<>>

\* seq[:n] for n >= 0
Take(seq, n) == SubSeq(seq, 1, IF n < Len(seq) THEN n ELSE Len(seq))

\* str.replace(" ", "")
RECURSIVE RemoveSpaces(_)
RemoveSpaces(s) ==
    IF s = <<>> THEN <<>>
    ELSE IF Head(s) = " " THEN RemoveSpaces(Tail(s))
         ELSE <<Head(s)>> \o RemoveSpaces(Tail(s))

\* The lower-case form of a character; Hangul has no case.
LowerChar(c) == IF c = "A" THEN "a" ELSE IF c = "B" THEN "b" ELSE c

\* str.lower()
Lower(s) == [i \in 1..Len(s) |-> LowerChar(s[i])]

\* The characters str.strip() removes at both ends.
Whitespace == {" ", "\t", "\n"}

RECURSIVE LStrip(_)
LStrip(s) ==
    IF s # <<>> /\ Head(s) \in Whitespace THEN LStrip(Tail(s)) ELSE s

RECURSIVE RStrip(_)
RStrip(s) ==
    IF s # <<>> /\ s[Len(s)] \in Whitespace
    THEN RStrip(SubSeq(s, 1, Len(s) - 1)) ELSE s

\* str.strip()
Strip(s) == RStrip(LStrip(s))

\* keyword in message
IsSubstring(k, s) ==
    \E i \in 0..(Len(s) - Len(k)) : SubSeq(s, i + 1, i + Len(k)) = k

(***************************************************************************)
(* main.py: the category tables.                                           *)
(***************************************************************************)
PolicyCat == <<"jeongchaek.jedo">>                  \* 정책·제도
MarketCat == <<"sijang donghyang.sihwang">>        \* 시장 동향·시황
PresaleCat == <<"bunyang.cheongyak">>               \* 분양·청약
DevelopCat == <<"gaebal.jaegeonchuk.jaegaebal">>    \* 개발·재건축·재개발
FinanceCat == <<"geumyung.daechul.geumri">>         \* 금융·대출·금리
TaxCat == <<"segeum.beomnyul.gyuje">>               \* 세금·법률·규제

Rule(k, c) == [keyword |-> k, category |-> c]

\* CATEGORY_MAP, in insertion order (the order dict.items() iterates in).
CATEGORY_MAP == <<
    Rule(<<"jeong", "chaek">>, PolicyCat),
    Rule(<<"je", "do">>, PolicyCat),
    Rule(<<"jeong", "chaek", "je", "do">>, PolicyCat),
    Rule(<<"si", "jang">>, MarketCat),
    Rule(<<"dong", "hyang">>, MarketCat),
    Rule(<<"si", "hwang">>, MarketCat),
    Rule(<<"si", "jang", "dong", "hyang">>, MarketCat),
    Rule(<<"bun", "yang">>, PresaleCat),
    Rule(<<"cheong", "yak">>, PresaleCat),
    Rule(<<"bun", "yang", "cheong", "yak">>, PresaleCat),
    Rule(<<"gae", "bal">>, DevelopCat),
    Rule(<<"jae", "geon", "chuk">>, DevelopCat),
    Rule(<<"jae", "gae", "bal">>, DevelopCat),
    Rule(<<"gae", "bal", "jae", "geon", "chuk">>, DevelopCat),
    Rule(<<"geum", "yung">>, FinanceCat),
    Rule(<<"dae", "chul">>, FinanceCat),
    Rule(<<"geum", "ri">>, FinanceCat),
    Rule(<<"geum", "yung", "dae", "chul">>, FinanceCat),
    Rule(<<"se", "geum">>, TaxCat),
    Rule(<<"beop", "ryul">>, TaxCat),
    Rule(<<"gyu", "je">>, TaxCat),
    Rule(<<"se", "geum", "beop", "ryul">>, TaxCat) >>

\* CATEGORY_EMOJI.get(category, default)
CATEGORY_EMOJI(c) ==
    IF c = PolicyCat THEN "clipboard"
    ELSE IF c = MarketCat THEN "chart"
    ELSE IF c = PresaleCat THEN "crane"
    ELSE IF c = DevelopCat THEN "office"
    ELSE IF c = FinanceCat THEN "moneybag"
    ELSE IF c = TaxCat THEN "scales"
    ELSE "newspaper"

(***************************************************************************)
(* main.py: detect_category.                                               *)
(***************************************************************************)
\* message = user_message.replace(" ", "").lower()
NormalizeMessage(m) == Lower(RemoveSpaces(m))

\* The loop without its early return: the last rule that matches wins.
RECURSIVE ScanRulesLast(_, _)
ScanRulesLast(message, i) ==
    IF i > Len(CATEGORY_MAP) THEN None
    ELSE LET later == ScanRulesLast(message, i + 1) IN
         IF later # None THEN later
         ELSE IF IsSubstring(CATEGORY_MAP[i].keyword, message)
              THEN CATEGORY_MAP[i].category
              ELSE None

\* The loop over CATEGORY_MAP.items(): the first rule that matches returns.
RECURSIVE ScanRules(_, _)
ScanRules(message, i) ==
    IF i > Len(CATEGORY_MAP) THEN None
    ELSE IF IsSubstring(CATEGORY_MAP[i].keyword, message)
         THEN CATEGORY_MAP[i].category
         ELSE ScanRules(message, i + 1)

detect_category(m) ==
    IF ~Truthy(m) THEN None ELSE ScanRules(NormalizeMessage(m), 1)

(***************************************************************************)
(* Exceptions: a call either returns a value or raises.                    *)
(***************************************************************************)
Return(v) == [exc |-> FALSE, val |-> v]
Raise == [exc |-> TRUE, val |-> <<>>]

\* try: <o>  except Exception: return v
TryExcept(o, v) == IF o.exc THEN Return(v) ELSE o

(***************************************************************************)
(* common.py: get_latest_news_from_gsheet.                                 *)
(***************************************************************************)
SCORE_THRESHOLD == 75

Digits == <<"0", "1", "2", "3", "4", "5", "6", "7", "8", "9">>
IsDigit(c) == \E d \in 1..10 : Digits[d] = c
DigitValue(c) == (CHOOSE d \in 1..10 : Digits[d] = c) - 1

RECURSIVE DecimalValue(_)
DecimalValue(s) ==
    IF s = <<>> THEN 0
    ELSE 10 * DecimalValue(SubSeq(s, 1, Len(s) - 1)) + DigitValue(s[Len(s)])

\* int(s) of a string: surrounding whitespace is dropped, what is left must
\* be decimal digits; anything else raises ValueError.
ParseInt(s) ==
    LET t == Strip(s) IN
    IF t # <<>> /\ \A i \in 1..Len(t) : IsDigit(t[i])
    THEN Return(DecimalValue(t))
    ELSE Raise

\* The coercion with a text that is no number left above the threshold.
CoerceScoreDefaultsHigh(record) ==
    LET score == Get(record, "relevance_score", [int |-> 0]) IN
    IF "str" \in DOMAIN score
    THEN TryExcept(ParseInt(score.str), 100).val
    ELSE score.int

\* Lines 41-46: the score of a row, an integer.  A row's score is
\* [int |-> n] for a number cell and [str |-> s] for a text cell.
CoerceScore(record) ==
    LET score == Get(record, "relevance_score", [int |-> 0]) IN
    IF "str" \in DOMAIN score
    THEN TryExcept(ParseInt(score.str), 0).val
    ELSE score.int

\* Order of two characters of a timestamp (digits, by code point).
CharLess(a, b) == DigitValue(a) < DigitValue(b)

\* a <= b for Python strings: lexicographic
RECURSIVE StrLE(_, _)
StrLE(a, b) ==
    IF a = <<>> THEN TRUE
    ELSE IF b = <<>> THEN FALSE
    ELSE IF Head(a) = Head(b) THEN StrLE(Tail(a), Tail(b))
    ELSE CharLess(Head(a), Head(b))

\* key=lambda x: x.get('timestamp', '')
SortKey(record) == Get(record, "timestamp", <<>>)

\* sorted(..., reverse=True) is stable: rows with equal keys keep the order
\* they have in the input.
RECURSIVE InsertDesc(_, _)
InsertDesc(sorted, r) ==
    IF sorted = <<>> THEN <<r>>
    ELSE IF StrLE(SortKey(r), SortKey(Head(sorted)))
         THEN <<Head(sorted)>> \o InsertDesc(Tail(sorted), r)
         ELSE <<r>> \o sorted

\* The rows left in the order of the sheet.
Unsorted(records) == records

RECURSIVE SortedDesc(_)
SortedDesc(records) ==
    IF records = <<>> THEN <<>>
    ELSE InsertDesc(SortedDesc(SubSeq(records, 1, Len(records) - 1)),
                    records[Len(records)])

\* str.split(',')
RECURSIVE SplitComma(_, _)
SplitComma(s, cur) ==
    IF s = <<>> THEN <<cur>>
    ELSE IF Head(s) = "," THEN <<cur>> \o SplitComma(Tail(s), <<>>)
         ELSE SplitComma(Tail(s), Append(cur, Head(s)))

\* Lines 50-64: the dict appended for a row that passes the filter.
NewsItem(record, score) ==
    [title |-> Get(record, "title", <<>>),
     description |-> Get(record, "description", <<>>),
     link |-> Get(record, "url", <<>>),
     url |-> Get(record, "url", <<>>),
     originallink |-> Get(record, "url", <<>>),
     relevance_score |-> score,
     keywords |-> IF Truthy(Get(record, "keywords", None))
                  THEN SplitComma(record["keywords"], <<>>) ELSE <<>>,
     region |-> Get(record, "region", <<>>),
     category |-> Get(record, "category", <<>>),
     has_price |-> Get(record, "has_price", FALSE),
     has_policy |-> Get(record, "has_policy", FALSE),
     timestamp |-> Get(record, "timestamp", <<>>),
     is_relevant |-> TRUE]

\* Lines 39-68: the loop over sorted_records[:limit], from row i on.
RECURSIVE CollectLatest(_, _, _, _)
CollectLatest(slice, i, latest_news, lim) ==
    IF i > Len(slice) THEN latest_news
    ELSE LET score == CoerceScore(slice[i])
             appended == IF score >= SCORE_THRESHOLD
                         THEN Append(latest_news, NewsItem(slice[i], score))
                         ELSE latest_news
         IN  IF Len(appended) >= lim THEN appended
             ELSE CollectLatest(slice, i + 1, appended, lim)

\* Lines 37-39: which rows the loop visits.
RowsVisited(sorted_records, lim) == Take(sorted_records, lim)

\* Lines 22-72: the body of the try.  fails: get_all_records() raises.
LatestNewsBody(fails, lim) ==
    IF fails THEN Raise
    ELSE IF all_records = <<>> THEN Return(<<>>)
    ELSE Return(CollectLatest(RowsVisited(SortedDesc(all_records), lim),
                              1, <<>>, lim))

\* The function without its try: a failed fetch raises to the caller.
LatestNewsUncaught(fails, lim) ==
    IF ~gsheet_worksheet THEN Return(<<>>) ELSE LatestNewsBody(fails, lim)

get_latest_news_from_gsheet(fails, lim) ==
    IF ~gsheet_worksheet THEN Return(<<>>)
    ELSE TryExcept(LatestNewsBody(fails, lim), <<>>)

(***************************************************************************)
(* main.py: normalize_category, get_news_by_category.                      *)
(***************************************************************************)
CATEGORY_FETCH_LIMIT == 200

normalize_category(c) == IF ~Truthy(c) THEN <<>> ELSE Strip(c)

\* Line 183: the comparison that keeps a news item.
CategoryMatches(news, normalized_target) ==
    Lower(normalize_category(Get(news, "category", <<>>)))
        = Lower(normalized_target)

\* Lines 178-184: the filter loop, in the order of all_news.
RECURSIVE FilterCategory(_, _)
FilterCategory(all_news, normalized_target) ==
    IF all_news = <<>> THEN <<>>
    ELSE (IF CategoryMatches(Head(all_news), normalized_target)
          THEN <<Head(all_news)>> ELSE <<>>)
         \o FilterCategory(Tail(all_news), normalized_target)

\* Lines 162-197: the body of the try.
NewsByCategoryBody(fails, cat, lim) ==
    LET fetched == get_latest_news_from_gsheet(fails, CATEGORY_FETCH_LIMIT) IN
    IF fetched.exc THEN Raise
    ELSE IF fetched.val = <<>> THEN Return(<<>>)
    ELSE Return(Take(FilterCategory(fetched.val, normalize_category(cat)), lim))

get_news_by_category(fails, cat, lim) ==
    TryExcept(NewsByCategoryBody(fails, cat, lim), <<>>)

(***************************************************************************)
(* main.py: handle_news_request.  A text is a sequence of lines, a line a  *)
(* string; "\n" joins them.                                                *)
(***************************************************************************)
CATEGORY_NEWS_LIMIT == 3
LATEST_NEWS_LIMIT == 5

NO_TITLE == <<"jemok eopseum">>           \* '제목 없음'
NO_URL == <<"(URL jeongbo eopseum)">>     \* "(URL 정보 없음)"

\* Line 241: the text for a category that has no news.
NoCategoryNewsText(cat) ==
    << <<CATEGORY_EMOJI(cat), " '">> \o cat
           \o <<"' kategori-ui choesin nyuseu-ga ajik eopseumnida.">>,
       <<>>,
       <<"jamsi hu dasi sido, ttoneun dareun kategori-reul seontaek.">> >>

\* Line 260
PreparingText == << <<"choesin nyuseu-reul junbi jung-imnida.">> >>

\* Line 314
ErrorText == << <<"nyuseu-reul bulleooneun jung oryu-ga balsaenghaetseumnida.">> >>

\* Lines 236-246, 256-263, 293-304, 310-317: the Kakao response dict.
SimpleTextResponse(text) ==
    [version |-> "2.0",
     template |-> [outputs |-> << [simpleText |-> [text |-> text]] >>]]

\* Lines 248 and 252: the header line.
CategoryTitle(cat, n) ==
    <<CATEGORY_EMOJI(cat), " ">> \o cat
        \o <<" nyuseu (chong ", ToString(n), "geon)">>
LatestTitle(n) ==
    <<"newspaper", " oneurui budongsan nyuseu (chong ", ToString(n), "geon)">>

\* Line 278
ItemTitle(item) == Get(item, "title", NO_TITLE)

\* Line 280: item.get('url') or item.get('link') or item.get('originallink', '')
ItemUrl(item) ==
    IF Truthy(Get(item, "url", None)) THEN item["url"]
    ELSE IF Truthy(Get(item, "link", None)) THEN item["link"]
    ELSE Get(item, "originallink", <<>>)

\* The link line without the placeholder.
ShownUrlNoPlaceholder(item) == ItemUrl(item)

\* Lines 282-286
ShownUrl(item) == IF ~Truthy(ItemUrl(item)) THEN NO_URL ELSE ItemUrl(item)

\* Line 288: f"{idx}. {title}\n{url}\n\n"
ItemLines(idx, item) ==
    << <<ToString(idx), ". ">> \o ItemTitle(item), ShownUrl(item), <<>> >>

\* Lines 277-288: the loop, from item idx on.
RECURSIVE ItemsText(_, _)
ItemsText(items, idx) ==
    IF idx > Len(items) THEN <<>>
    ELSE ItemLines(idx, items[idx]) \o ItemsText(items, idx + 1)

\* str.strip() of a text: blank lines and blanks at both ends go.
RECURSIVE DropBlankTail(_)
DropBlankTail(lines) ==
    IF lines # <<>> /\ Strip(lines[Len(lines)]) = <<>>
    THEN DropBlankTail(SubSeq(lines, 1, Len(lines) - 1)) ELSE lines

RECURSIVE DropBlankHead(_)
DropBlankHead(lines) ==
    IF lines # <<>> /\ Strip(Head(lines)) = <<>>
    THEN DropBlankHead(Tail(lines)) ELSE lines

StripText(lines) ==
    LET t == DropBlankTail(DropBlankHead(lines)) IN
    IF t = <<>> THEN t
    ELSE IF Len(t) = 1 THEN <<Strip(t[1])>>
    ELSE <<LStrip(t[1])>> \o SubSeq(t, 2, Len(t) - 1) \o <<RStrip(t[Len(t)])>>

\* news_list without the strip().
NewsListTextUnstripped(title_text, items) ==
    <<title_text, <<>>>> \o ItemsText(items, 1)

\* Lines 275-299: news_list, stripped.
NewsListText(title_text, items) ==
    StripText(<<title_text, <<>>>> \o ItemsText(items, 1))

\* What a call of the handler does: the category it detected, the list the
\* selector gave it, and the response or the exception.
Handled(cat, items, o) == [category |-> cat, news_items |-> items, out |-> o]

\* Lines 217-304: the body of the try.
HandleBody(fails, message) ==
    LET cat == detect_category(message) IN
    IF Truthy(cat)
    THEN LET sel == get_news_by_category(fails, cat, CATEGORY_NEWS_LIMIT) IN
         IF sel.exc THEN Handled(cat, <<>>, Raise)
         ELSE IF sel.val = <<>>
         THEN Handled(cat, sel.val,
                      Return(SimpleTextResponse(NoCategoryNewsText(cat))))
         ELSE Handled(cat, sel.val,
                      Return(SimpleTextResponse(
                          NewsListText(CategoryTitle(cat, Len(sel.val)), sel.val))))
    ELSE LET sel == get_latest_news_from_gsheet(fails, LATEST_NEWS_LIMIT) IN
         IF sel.exc THEN Handled(cat, <<>>, Raise)
         ELSE IF sel.val = <<>>
         THEN Handled(cat, sel.val, Return(SimpleTextResponse(PreparingText)))
         ELSE Handled(cat, sel.val,
                      Return(SimpleTextResponse(
                          NewsListText(LatestTitle(Len(sel.val)), sel.val))))

\* Lines 209-317: the try and its except.
handle_news_request(fails, message) ==
    LET h == HandleBody(fails, message) IN
    Handled(h.category, h.news_items,
            TryExcept(h.out, SimpleTextResponse(ErrorText)))

(***************************************************************************)
(* Inputs.                                                                 *)
(***************************************************************************)
SeqsUpTo(S, n) == UNION {[1..k -> S] : k \in 0..n}

NoResponse == [none |-> TRUE]

\* A dict with no key, and the dict of one key.
EmptyDict == [k \in {} |-> <<>>]
Key(k, v) == [x \in {k} |-> v]

\* Timestamps: as strings "12" < "2".
Timestamps == {<<"1", "2">>, <<"2">>}

\* Score and category cells.  The scores: a number below the threshold, a
\* text that is the number at the threshold, a text that is no number, a
\* number at the threshold.  The categories: a canonical label, and one
\* with blanks around it.
ScoredCells ==
    {Key("relevance_score", [int |-> 74]) @@ Key("category", PolicyCat),
     Key("relevance_score", [str |-> <<"7", "5">>]) @@ Key("category", PolicyCat),
     Key("relevance_score", [str |-> <<"7", "x">>])
         @@ Key("category", <<" ">> \o FinanceCat \o <<"\n">>),
     Key("relevance_score", [int |-> 75])
         @@ Key("category", <<" ">> \o FinanceCat \o <<"\n">>)}

\* Rows of the selector specification; the last has none of the keys read.
SelectRows ==
    {Key("timestamp", t) @@ c : t \in Timestamps, c \in ScoredCells}
    \cup {Key("title", <<"T0">>)}

Targets == {PolicyCat, FinanceCat}

\* Rows of the request specification.  The title is absent, empty or set;
\* the address is absent, under url, or under link only.
TitleCells == {EmptyDict, Key("title", <<>>), Key("title", <<"T1">>)}
AddressCells == {EmptyDict, Key("url", <<"u1">>), Key("link", <<"l1">>)}
RequestRows ==
    {t @@ a @@ Key("timestamp", <<"2">>) @@ Key("relevance_score", [int |-> 90])
        @@ Key("category", PolicyCat) : t \in TitleCells, a \in AddressCells}
    \cup {Key("title", <<"T2">>) @@ Key("url", <<"u2">>)
              @@ Key("timestamp", <<"1", "2">>)
              @@ Key("relevance_score", [int |-> 74])
              @@ Key("category", PolicyCat),
          Key("title", <<"T3">>) @@ Key("url", <<"u3">>)
              @@ Key("timestamp", <<"1">>)
              @@ Key("relevance_score", [str |-> <<"9", "0">>])
              @@ Key("category", FinanceCat),
          Key("title", <<"T4">>) @@ Key("timestamp", <<"1">>)
              @@ Key("relevance_score", [int |-> 100])}

\* Messages of the request specification.
RequestMessages ==
    {None, <<"A">>, <<"jeong", "chaek">>, <<"geum", " ", "ri">>}

\* Characters of the messages of the classifier specification.
MessageChars == {"jeong", "chaek", "geum", "ri", "se", " ", "\t", "A"}
Messages == SeqsUpTo(MessageChars, MaxMsgLen) \cup {None}

(***************************************************************************)
(* Operations.                                                             *)
(***************************************************************************)
\* Before any call.
Idle ==
    /\ fetch_fails = FALSE
    /\ limit = 0
    /\ target = None
    /\ category = None
    /\ news_items = <<>>
    /\ response = NoResponse
    /\ raised = FALSE
    /\ op = "init"

\* A call of get_latest_news_from_gsheet(limit).
SelectLatest ==
    \E fails \in BOOLEAN, lim \in 0..MaxLimit :
        LET o == get_latest_news_from_gsheet(fails, lim) IN
        /\ fetch_fails' = fails
        /\ limit' = lim
        /\ target' = None
        /\ news_items' = o.val
        /\ raised' = o.exc
        /\ op' = "latest"
        /\ UNCHANGED <<gsheet_worksheet, all_records, user_message, category,
                       response>>

\* A call of get_news_by_category(category, limit).
SelectByCategory ==
    \E fails \in BOOLEAN, cat \in Targets, lim \in 0..MaxLimit :
        LET o == get_news_by_category(fails, cat, lim) IN
        /\ fetch_fails' = fails
        /\ limit' = lim
        /\ target' = cat
        /\ news_items' = o.val
        /\ raised' = o.exc
        /\ op' = "bycat"
        /\ UNCHANGED <<gsheet_worksheet, all_records, user_message, category,
                       response>>

\* A call of detect_category(user_message).
Classify ==
    /\ category' = detect_category(user_message)
    /\ op' = "classify"
    /\ UNCHANGED <<gsheet_worksheet, all_records, fetch_fails, user_message,
                   limit, target, news_items, response, raised>>

\* A call of handle_news_request(request).
HandleRequest ==
    \E fails \in BOOLEAN :
        LET h == handle_news_request(fails, user_message) IN
        /\ fetch_fails' = fails
        /\ category' = h.category
        /\ news_items' = h.news_items
        /\ response' = IF h.out.exc THEN NoResponse ELSE h.out.val
        /\ raised' = h.out.exc
        /\ op' = "request"
        /\ UNCHANGED <<gsheet_worksheet, all_records, user_message, limit,
                       target>>

(***************************************************************************)
(* Specifications.                                                         *)
(***************************************************************************)
\* The two selectors, over every sheet of at most MaxRows rows.
InitSelect ==
    /\ gsheet_worksheet = TRUE
    /\ all_records \in SeqsUpTo(SelectRows, MaxRows)
    /\ user_message = None
    /\ Idle
NextSelect == SelectLatest \/ SelectByCategory
SpecSelect == InitSelect /\ [][NextSelect]_vars

\* The classifier, over every message of at most MaxMsgLen characters.
InitClassify ==
    /\ gsheet_worksheet = FALSE
    /\ all_records = <<>>
    /\ user_message \in Messages
    /\ Idle
NextClassify == Classify
SpecClassify == InitClassify /\ [][NextClassify]_vars

\* The request handler: the worksheet handle is unset, or set with a sheet
\* of at most MaxReqRows rows.
InitRequest ==
    /\ \/ gsheet_worksheet = FALSE /\ all_records = <<>>
       \/ gsheet_worksheet = TRUE /\ all_records \in SeqsUpTo(RequestRows, MaxReqRows)
    /\ user_message \in RequestMessages
    /\ Idle
NextRequest == HandleRequest
SpecRequest == InitRequest /\ [][NextRequest]_vars

(***************************************************************************)
(* Properties of the selectors (SpecSelect).                               *)
(***************************************************************************)
Min(a, b) == IF a < b THEN a ELSE b

\* The decimal numeral of n, 0 <= n <= 999, without leading zeros.
Numeral(n) ==
    IF n < 10 THEN <<Digits[n + 1]>>
    ELSE IF n < 100 THEN <<Digits[(n \div 10) + 1], Digits[(n % 10) + 1]>>
    ELSE <<Digits[(n \div 100) + 1], Digits[((n \div 10) % 10) + 1],
           Digits[(n % 10) + 1]>>

\* A row whose score cell is a number of at least 75, or a text that is the
\* numeral of one; a missing cell and a text that is no number count as 0.
Qualifies(r) ==
    /\ "relevance_score" \in DOMAIN r
    /\ \/ "int" \in DOMAIN r.relevance_score /\ r.relevance_score.int >= 75
       \/ /\ "str" \in DOMAIN r.relevance_score
          /\ \E n \in 75..999 : Strip(r.relevance_score.str) = Numeral(n)

\* A row whose trimmed category equals the target, ignoring case.
InCategory(r, cat) ==
    /\ "category" \in DOMAIN r
    /\ Lower(Strip(r.category)) = Lower(cat)

\* The rows of records that are in the set keep, in the order of records.
RECURSIVE Kept(_, _)
Kept(records, keep) ==
    IF records = <<>> THEN <<>>
    ELSE (IF Head(records) \in keep THEN <<Head(records)>> ELSE <<>>)
         \o Kept(Tail(records), keep)

RowSet == {all_records[j] : j \in DOMAIN all_records}

\* The item list is the first `lim` of `rows`, timestamp for timestamp.
IsNewestOf(items, rows, lim) ==
    /\ Len(items) = Min(lim, Len(rows))
    /\ \A i \in 1..Len(items) :
           items[i].timestamp = SortKey(SortedDesc(rows)[i])

\* C1: a call of get_latest_news_from_gsheet(limit) that reads the sheet
\* returns the `limit` most recent of all the rows with score >= 75, and all
\* of them when fewer than `limit` qualify.
C1_LatestOfAllQualifying ==
    (op = "latest" /\ ~fetch_fails) =>
        IsNewestOf(news_items,
                   Kept(all_records, {r \in RowSet : Qualifies(r)}), limit)

\* C2: a call of get_news_by_category(category, limit) that reads the sheet
\* returns the `limit` most recent of all the rows of that category, whatever
\* their score.
C2_CategoryIgnoresScore ==
    (op = "bycat" /\ ~fetch_fails) =>
        IsNewestOf(news_items,
                   Kept(all_records, {r \in RowSet : InCategory(r, target)}),
                   limit)

\* The rows an item can have been built from.
RowsOf(item) ==
    {r \in RowSet : /\ Get(r, "timestamp", <<>>) = item.timestamp
                    /\ Get(r, "category", <<>>) = item.category
                    /\ Get(r, "title", <<>>) = item.title}

\* C3: every record get_latest_news_from_gsheet(limit) returns has a score
\* of at least 75 and comes from a row whose score, coerced, is at least 75,
\* and the result has at most `limit` records.
C3_ScoreAndLimit ==
    op = "latest" =>
        /\ Len(news_items) <= limit
        /\ \A i \in 1..Len(news_items) :
               /\ news_items[i].relevance_score >= 75
               /\ \E r \in RowsOf(news_items[i]) : Qualifies(r)

\* C3 happens: a full result from a sheet that holds a text score that is
\* a number and one that is not.
C3_Witness ==
    /\ op = "latest"
    /\ limit >= 1
    /\ Len(news_items) = limit
    /\ \E r \in RowSet : Get(r, "relevance_score", [int |-> 0])
                             = [str |-> <<"7", "x">>]
    /\ \E r \in RowSet : Get(r, "relevance_score", [int |-> 0])
                             = [str |-> <<"7", "5">>]

\* C4: the result of either selector is in descending order of timestamp,
\* compared as strings.
C4_SortedDescending ==
    op \in {"latest", "bycat"} =>
        \A i, j \in 1..Len(news_items) :
            i < j => StrLE(news_items[j].timestamp, news_items[i].timestamp)

\* C4 happens: two records of different timestamps are returned from a
\* sheet that holds them oldest first.
C4_Witness ==
    /\ op \in {"latest", "bycat"}
    /\ Len(news_items) = 2
    /\ Len(all_records) = 2
    /\ news_items[1].timestamp # news_items[2].timestamp
    /\ SortKey(all_records[1]) = news_items[2].timestamp

(***************************************************************************)
(* Properties of the classifier (SpecClassify).                            *)
(***************************************************************************)
\* The indexes of the rules whose keyword is in the message.
MatchingRules(message) ==
    {i \in 1..Len(CATEGORY_MAP) : IsSubstring(CATEGORY_MAP[i].keyword, message)}

\* The categories of those rules.
MatchingCategories(message) ==
    {CATEGORY_MAP[i].category : i \in MatchingRules(message)}

\* The message as detect_category matches it; None has no characters.
Normalized == IF user_message = None THEN <<>> ELSE NormalizeMessage(user_message)

\* C5: detect_category returns the category of the earliest rule of
\* CATEGORY_MAP whose keyword is in the normalized message, and None when no
\* rule's keyword is in it (the empty message and None included).
C5_FirstRuleWins ==
    op = "classify" =>
        /\ MatchingRules(Normalized) = {} => category = None
        /\ \A i \in MatchingRules(Normalized) :
               (\A j \in MatchingRules(Normalized) : i <= j)
                   => category = CATEGORY_MAP[i].category
        /\ ~Truthy(user_message) => category = None

\* C5 happens: a message holds keywords of rules of two categories and the
\* later category's keyword comes first in the message.
C5_Witness ==
    /\ op = "classify"
    /\ Cardinality(MatchingCategories(Normalized)) = 2
    /\ IsSubstring(<<"geum", "ri", "jeong", "chaek">>, Normalized)
    /\ category = PolicyCat

\* A string without its whitespace characters.
RECURSIVE RemoveWhitespace(_)
RemoveWhitespace(s) ==
    IF s = <<>> THEN <<>>
    ELSE IF Head(s) \in Whitespace THEN RemoveWhitespace(Tail(s))
         ELSE <<Head(s)>> \o RemoveWhitespace(Tail(s))

\* C6: detect_category of a message is detect_category of the message with
\* every whitespace character removed.
C6_AllWhitespaceIgnored ==
    (op = "classify" /\ user_message # None) =>
        category = detect_category(RemoveWhitespace(user_message))

(***************************************************************************)
(* Properties of the request handler (SpecRequest).                        *)
(***************************************************************************)
\* A success-shaped response that carries a single text output.
WellFormed(r) ==
    /\ DOMAIN r = {"version", "template"}
    /\ r.version = "2.0"
    /\ Len(r.template.outputs) = 1
    /\ DOMAIN r.template.outputs[1] = {"simpleText"}
    /\ r.template.outputs[1].simpleText.text # <<>>

\* The display text of the response.
Text == response.template.outputs[1].simpleText.text

\* The response lists news: the selector returned records.
ListRendered == op = "request" /\ ~raised /\ news_items # <<>>

\* The store gives no rows: the handle is unset, the sheet is empty or the
\* fetch raised.
StoreGivesNothing == ~gsheet_worksheet \/ all_records = <<>> \/ fetch_fails

\* C7: when the worksheet handle is unset, the sheet has no rows or the
\* fetch raises, the selector the handler calls returns the empty list, and
\* the response is the one an empty sheet gets; no call of the handler lets
\* an exception escape, and every response is well formed.
C7_StoreFailureIsEmpty ==
    op = "request" =>
        /\ ~raised
        /\ WellFormed(response)
        /\ StoreGivesNothing =>
               /\ news_items = <<>>
               /\ response = SimpleTextResponse(
                      IF category = None THEN PreparingText
                      ELSE NoCategoryNewsText(category))

\* C7 happens: the fetch raises on a sheet that has a row the request would
\* have listed.
C7_Witness ==
    /\ op = "request"
    /\ fetch_fails
    /\ gsheet_worksheet
    /\ category = None
    /\ \E j \in DOMAIN all_records : Qualifies(all_records[j])

\* The lines of item i in the text: its title line and its link line.
TitleLine(i) == Text[3 * i]
LinkLine(i) == Text[3 * i + 1]

C9_TitlePlaceholder ==
    ListRendered =>
        \A i \in 1..Len(news_items) :
            TitleLine(i) = <<ToString(i), ". ">>
                \o (IF news_items[i].title = <<>> THEN NO_TITLE
                    ELSE news_items[i].title)

\* The six canonical categories.
SixCategories ==
    {PolicyCat, MarketCat, PresaleCat, DevelopCat, FinanceCat, TaxCat}

\* A line that lists a keyword of each of the six categories.
IsCategoryMenuHint(line) ==
    \A c \in SixCategories :
        \E i \in 1..Len(CATEGORY_MAP) :
            /\ CATEGORY_MAP[i].category = c
            /\ IsSubstring(CATEGORY_MAP[i].keyword, line)

\* C10 as claimed: a list rendered for a message with no category ends with
\* the category-menu hint, and one rendered for a category has no hint.
C10_HintWhenNoCategory ==
    ListRendered =>
        /\ category = None => IsCategoryMenuHint(Text[Len(Text)])
        /\ category # None =>
               \A k \in 1..Len(Text) : ~IsCategoryMenuHint(Text[k])

\* C10 as amended: a rendered list, with or without a category, is the
\* header line, a blank line and the items; it ends with the last record's
\* link line and no line of it is a category-menu hint.
C10_NoHintEver ==
    ListRendered =>
        /\ Len(Text) = 3 * Len(news_items) + 1
        /\ Text[1] = IF category = None THEN LatestTitle(Len(news_items))
                     ELSE CategoryTitle(category, Len(news_items))
        /\ Text[Len(Text)] \in {news_items[Len(news_items)].url, NO_URL}
        /\ \A k \in 1..Len(Text) : ~IsCategoryMenuHint(Text[k])

\* C10 happens: a list is rendered for a message with no category.
C10_Witness ==
    /\ ListRendered
    /\ category = None
    /\ user_message = <<"A">>
    /\ Len(news_items) = 2

====
